---- MODULE Spec2Model ----
(***************************************************************************)
(* A model of the pump.fun monitoring bot: the holder analytics of         *)
(* src/analytics.py (HolderCountAnalyzer) and the evaluation loop and      *)
(* orchestrator of src/trade.py (analyser, monitorTokenCreation, main).    *)
(*                                                                         *)
(* Token amounts are counted in units of 10^9 base units, so that the      *)
(* fixed supply of 10^15 base units is 10^6 units; a percentage is kept as *)
(* the fraction num/den together with the direction in which the float     *)
(* (amount / supply) * 100 is rounded away from it.  Python's True / False *)
(* / None are the strings "True", "False" and "None".  A text that the     *)
(* code searches (a token's name or symbol, the match string) is the       *)
(* sequence of its characters.                                             *)
(***************************************************************************)
EXTENDS Integers, Sequences, FiniteSets, TLC

VARIABLES
    apc,          \* analyser: where the evaluation loop of one token stands
    i,            \* analyser: the index of the for loop, range(12 * 5)
    elapsed,      \* int(time.time()) - currentEpochTime, saturated above timeLimit
    top_holders,  \* make_decision: the local snapshot of the running iteration
    gates,        \* make_decision: the gate values of the running iteration
    proceed,      \* analyser: what the last make_decision returned
    verdict,      \* which return of make_decision the last iteration took
    calls,        \* history: the make_decision calls of analyser, saturated above 60
    fault,        \* history: the fetch that raised in the running iteration
    queries       \* history: the get_holder_count calls of the running iteration

loopvars == <<apc, i, elapsed, top_holders, gates, proceed, verdict, calls, fault,
              queries>>

VARIABLES
    ppc,          \* get_holder_count: before a page request, or returned
    feed,         \* what the provider answers, page by page
    page,         \* get_holder_count: the local page
    all_owners,   \* get_holder_count: the local all_owners
    result,       \* what get_holder_count returned, or that it raised
    requested     \* history: the page numbers requested, in order

pagevars == <<ppc, feed, page, all_owners, result, requested>>

VARIABLES
    gpc,          \* which gate function has been applied, if any
    g_holders,    \* the snapshot handed to the gate function
    g_threshold,  \* the threshold handed to it (the lower one of two)
    g_upper,      \* the upper threshold handed to check_lp_liquidity
    g_result      \* what it returned

gatevars == <<gpc, g_holders, g_threshold, g_upper, g_result>>

VARIABLES
    mpc,          \* main / monitorTokenCreation: where the orchestrator stands
    next_event,   \* the number of the next launch event of the stream
    outcome,      \* history: what became of each launch event
    live,         \* the analyser tasks that have not finished
    resolving,    \* the get_owner_wallet tasks of asyncio.gather not finished
    ws_tasks,     \* the tasks the open websocket connection runs of its own
    exits,        \* history: how many analyser tasks have finished
    loop_errors,  \* history: how many of them finished on an exception
    orch_errors,  \* history: how many exceptions main has caught
    after_error,  \* history: an event was consumed after an exception
    raised        \* line 136 or 147 has raised and main has not caught it yet

orchvars == <<mpc, next_event, outcome, live, resolving, ws_tasks, exits,
              loop_errors, orch_errors, after_error, raised>>

VARIABLES
    t_pc,         \* per analyser task: where its evaluation loop stands
    t_i,          \* per analyser task: the index of its for loop
    t_proceed,    \* per analyser task: what its last make_decision returned
    t_started,    \* history, per task: the make_decision calls it has made
    t_finished    \* history, per task: the calls that have returned

taskvars == <<t_pc, t_i, t_proceed, t_started, t_finished>>

VARIABLES
    tpc,          \* main without monitor mode, trade, _trade: where it stands
    flags,        \* yolo_mode, match_string, bro_address, marry_mode
    token_data,   \* _trade: the launch event in hand
    token_price_sol, \* _trade: the price read before the buy
    trade_log,    \* the lines of trades/trades.log
    files,        \* the writes of trades/<mint>.txt files, in order
    seen,         \* history: the mints of the launch events _trade has received
    executed      \* history: the buys and sells made, with what they returned

tradevars == <<tpc, flags, token_data, token_price_sol, trade_log, files, seen,
               executed>>

VARIABLES
    hpc,          \* get_top_holders: called, or returned
    largest,      \* what the largest-accounts query answers
    ranked        \* what get_top_holders returned

topvars == <<hpc, largest, ranked>>

VARIABLES
    main_pc,      \* main: not yet called, or running
    entry,        \* how main is called: from __main__, or by a caller of its own
    args,         \* the command-line flags, or the caller's keyword arguments
    monitor_mode  \* main: its parameter monitor_mode

mainvars == <<main_pc, entry, args, monitor_mode>>

vars == <<loopvars, pagevars, gatevars, orchvars, taskvars, tradevars, topvars,
          mainvars>>

----------------------------------------------------------------------------
(* Program constants *)

\* src/analytics.py:170, in units of 10^9 base units
total_supply == 1000000
top_n == 20
holder_threshold == 35
dev_threshold == 1
lp_threshold_lower == 60
lp_threshold_upper == 80
timeLimit == 100
special_holder_threshold == 60
special_lp_lower == 60
special_lp_upper == 80
exhausted_threshold == 99
max_iterations == 60
max_tasks == 200
sleep_seconds == 5
SPL_TOKEN_PROGRAM_ID == "TokenkegQ"
min_account_data_len == 64

None == "None"
dev_wallet == "dev"
bonding_curve == "curve"
Wallets == {dev_wallet, bonding_curve, "w1"}

----------------------------------------------------------------------------
(* Bounds of the model *)

\* the longest a single awaited fetch takes, in seconds
MaxDelay == 1
\* the most accounts the largest-accounts query answers with
MaxAccounts == 2
\* the most pages the holder-accounts provider has before its pages are empty
MaxPages == 2
\* the most token accounts on one page
MaxPageLen == 2
\* the launch events the stream delivers
MaxEvents == 3
\* the orchestrator starts with up to this many tasks to spare, or with none
Headroom == 3
\* the most get_owner_wallet tasks in flight at once, over all loops
MaxResolving == 3
\* the most tasks an open websocket connection runs of its own
MaxLibraryTasks == 1
\* the most analyser tasks that finish
MaxExits == 2
\* the most exceptions that reach main
MaxOrchErrors == 1
\* the launch events the trade path receives
MaxTrades == 2
\* the most accounts of a largest-accounts answer that get_top_holders ranks
MaxRanked == 3

Delays == 0..MaxDelay
Min(a, b) == IF a <= b THEN a ELSE b

\* All elapsed times above timeLimit read the same in check_time_limit.
Advance(e, d) == Min(e + d, timeLimit + 1)

----------------------------------------------------------------------------
(* Percentages: the float (amount / total_supply) * 100                    *)
(*                                                                         *)
(* The float is the fraction num/den, rounded twice (by the division and   *)
(* by the multiplication).  Against a whole-number threshold the rounding  *)
(* shows only when the fraction is that whole number: the float is then    *)
(* the number itself, or the next float above it, or the one below it,     *)
(* which `err` records (1, -1 or 0).  Any other fraction of a whole number *)
(* of units is further from every whole number than the rounding reaches.  *)

\* The whole percentages k in 0..100 for which (k / 100) * 100 > k in floats,
\* as 0.07 * 100 = 7.000000000000001.
float_above == {7, 14, 28, 55, 56}
\* Those for which (k / 100) * 100 < k, as 0.57 * 100 = 56.99999999999999.
float_below == {29, 57, 58}

float_error(amount) ==
    IF (amount * 100) % total_supply # 0 THEN 0
    ELSE LET k == (amount * 100) \div total_supply
         IN  IF k \in float_above THEN 1
             ELSE IF k \in float_below THEN -1
             ELSE 0

Percentage(amount) ==
    [num |-> amount * 100, den |-> total_supply, err |-> float_error(amount)]
PctGE(p, t) == p.num > t * p.den \/ (p.num = t * p.den /\ p.err >= 0)
PctGT(p, t) == p.num > t * p.den \/ (p.num = t * p.den /\ p.err > 0)
PctLE(p, t) == ~ PctGT(p, t)
Pct(p) == p * (total_supply \div 100)

----------------------------------------------------------------------------
(* get_owner_wallet: the owner of a token account, or None *)

AccountInfo(rpc, program, len, owner) ==
    [rpc |-> rpc, program |-> program, len |-> len, owner |-> owner]

get_owner_wallet(info) ==
    IF info.rpc = "raise" THEN None
    ELSE IF info.rpc = "none" THEN None
    ELSE IF info.program # SPL_TOKEN_PROGRAM_ID THEN None
    ELSE IF info.len < min_account_data_len THEN None
    ELSE info.owner

----------------------------------------------------------------------------
(* get_top_holders: the snapshot of one iteration *)

\* Lines 190-204: enumerate(zip(...), start=1), skipping the accounts with no
\* owner wallet.
RECURSIVE compile_holders_renumbered(_, _, _)
compile_holders_renumbered(accounts, owner_wallets, idx) ==
    IF idx > Len(accounts) THEN <<>>
    ELSE IF owner_wallets[idx] = None
         THEN compile_holders_renumbered(accounts, owner_wallets, idx + 1)
         ELSE <<[rank |-> idx - Cardinality({j \in 1..(idx - 1) :
                                               owner_wallets[j] = None}),
                 address |-> owner_wallets[idx],
                 amount |-> accounts[idx].amount,
                 percentage |-> Percentage(accounts[idx].amount),
                 is_dev |-> (owner_wallets[idx] = dev_wallet)]>>
              \o compile_holders_renumbered(accounts, owner_wallets, idx + 1)

RECURSIVE compile_holders(_, _, _)
compile_holders(accounts, owner_wallets, idx) ==
    IF idx > Len(accounts) THEN <<>>
    ELSE IF owner_wallets[idx] = None
         THEN compile_holders(accounts, owner_wallets, idx + 1)
         ELSE <<[rank |-> idx,
                 address |-> owner_wallets[idx],
                 amount |-> accounts[idx].amount,
                 percentage |-> Percentage(accounts[idx].amount),
                 is_dev |-> (owner_wallets[idx] = dev_wallet)]>>
              \o compile_holders(accounts, owner_wallets, idx + 1)

get_top_holders(response) ==
    IF response.kind = "raise" THEN <<>>
    ELSE IF response.kind = "none" THEN <<>>
    ELSE IF total_supply = 0 THEN <<>>
    ELSE LET accounts_to_process ==
                 SubSeq(response.value, 1, Min(Len(response.value), top_n))
             owner_wallets ==
                 [k \in 1..Len(accounts_to_process) |->
                     get_owner_wallet(accounts_to_process[k].info)]
         IN  compile_holders(accounts_to_process, owner_wallets, 1)

----------------------------------------------------------------------------
(* get_holder_count: the paginated holder-accounts query *)

EmptyPage == [kind |-> "ok", token_accounts |-> <<>>]
NoResultPage == [kind |-> "noresult", token_accounts |-> <<>>]
RaisePage == [kind |-> "raise", token_accounts |-> <<>>]

\* What the provider answers for page number `page`: the feed, then empty pages.
PageOf(pages, n) == IF n <= Len(pages) THEN pages[n] ELSE EmptyPage

PageEnds(data) == data.kind = "noresult" \/ Len(data.token_accounts) = 0
\* Lines 67-68: all_owners.add(account['owner'])
PageOwners_by_account(data) ==
    {data.token_accounts[k].account : k \in DOMAIN data.token_accounts}
PageOwners(data) ==
    {data.token_accounts[k].owner : k \in DOMAIN data.token_accounts}

RECURSIVE paginate(_, _, _)
paginate(pages, n, owners) ==
    LET data == PageOf(pages, n)
    IN  IF data.kind = "raise"
        THEN [kind |-> "raise", count |-> 0, requests |-> n]
        ELSE IF PageEnds(data)
        THEN [kind |-> "ok", count |-> Cardinality(owners), requests |-> n]
        ELSE paginate(pages, n + 1, owners \cup PageOwners(data))

get_holder_count(pages) == paginate(pages, 1, {})

----------------------------------------------------------------------------
(* The gates *)

check_holder_count(count, threshold) == count >= threshold

check_dev_wallet_sold_strict(threshold, holders) ==
    IF holders = <<>> THEN FALSE
    ELSE ~ \E k \in DOMAIN holders :
             /\ holders[k].address = dev_wallet
             /\ PctGT(holders[k].percentage, threshold)

check_dev_wallet_sold(threshold, holders) ==
    IF holders = <<>> THEN FALSE
    ELSE ~ \E k \in DOMAIN holders :
             /\ holders[k].address = dev_wallet
             /\ PctGE(holders[k].percentage, threshold)

check_lp_liquidity_lower_inclusive(thresholdLower, thresholdUpper, holders) ==
    IF holders = <<>> THEN FALSE
    ELSE \E k \in DOMAIN holders :
             /\ holders[k].address = bonding_curve
             /\ PctLE(holders[k].percentage, thresholdUpper)
             /\ PctGE(holders[k].percentage, thresholdLower)

check_lp_liquidity(thresholdLower, thresholdUpper, holders) ==
    IF holders = <<>> THEN FALSE
    ELSE \E k \in DOMAIN holders :
             /\ holders[k].address = bonding_curve
             /\ PctLE(holders[k].percentage, thresholdUpper)
             /\ PctGT(holders[k].percentage, thresholdLower)

check_time_limit_strict(e, limit) == e < limit
check_time_limit(e, limit) == e <= limit

bonding_curve_exhausted_strict(holders) ==
    \E k \in DOMAIN holders :
        /\ holders[k].address = bonding_curve
        /\ PctGT(holders[k].percentage, exhausted_threshold)

bonding_curve_exhausted(holders) ==
    \E k \in DOMAIN holders :
        /\ holders[k].address = bonding_curve
        /\ PctGE(holders[k].percentage, exhausted_threshold)

----------------------------------------------------------------------------
(* What the providers answer in the evaluation loop *)

Resolved(owner) == AccountInfo("ok", SPL_TOKEN_PROGRAM_ID, 165, owner)
LoopInfos == {Resolved(dev_wallet), Resolved(bonding_curve),
              AccountInfo("ok", SPL_TOKEN_PROGRAM_ID, 0, "w1")}
LoopAmounts == {Pct(99), Pct(75), Pct(1)}
LoopAccounts == [amount : LoopAmounts, info : LoopInfos]

SeqsUpTo(S, n) == UNION {[1..k -> S] : k \in 0..n}

RECURSIVE SumAmounts(_)
SumAmounts(accounts) ==
    IF accounts = <<>> THEN 0
    ELSE Head(accounts).amount + SumAmounts(Tail(accounts))

\* The provider orders the accounts by amount, descending, and they hold no
\* more than the supply.
LargestAccounts(S, n) ==
    {a \in SeqsUpTo(S, n) :
        /\ \A k \in 1..(Len(a) - 1) : a[k].amount >= a[k + 1].amount
        /\ SumAmounts(a) <= total_supply}

Response(kind, value) == [kind |-> kind, value |-> value]
LoopResponses ==
    {Response("raise", <<>>), Response("none", <<>>)}
    \cup {Response("ok", a) : a \in LargestAccounts(LoopAccounts, MaxAccounts)}

\* A page of token accounts whose owners are a..b, one account each.
OwnersPage(a, b) ==
    [kind |-> "ok",
     token_accounts |-> [k \in 1..(b - a + 1) |->
                            [owner |-> a + k - 1, account |-> a + k - 1]]]
LoopFeeds ==
    {<<>>,
     <<OwnersPage(1, 34)>>,
     <<OwnersPage(1, 35)>>,
     <<OwnersPage(1, 35), OwnersPage(30, 59)>>,
     <<OwnersPage(1, 40), OwnersPage(21, 60)>>,
     <<OwnersPage(1, 60), RaisePage>>,
     <<OwnersPage(1, 60), NoResultPage, OwnersPage(61, 70)>>}
\* What get_holder_count makes of each of them.
LoopHolderCounts == {get_holder_count(pages) : pages \in LoopFeeds}

----------------------------------------------------------------------------
(* make_decision, one awaited call after the other *)

NoGates ==
    [time_met |-> FALSE, holder_count_met |-> FALSE, dev_wallet_sold |-> FALSE,
     lp_liquidity_met |-> FALSE, special_holder_met |-> FALSE,
     special_lp_met |-> FALSE, exhausted |-> FALSE, stage |-> "unset"]

\* Line 305: what make_decision returns on an empty snapshot.
empty_snapshot_result == "True"

\* Line 338: the except clause prints and falls off the end of the function.
error_result == None

\* Line 303: if not top_holders
no_top_holders_never(holders) == FALSE
no_top_holders(holders) == holders = <<>>

\* return <value>: the locals of make_decision are gone.
Return(value, which) ==
    /\ proceed' = value
    /\ verdict' = which
    /\ top_holders' = <<>>
    /\ apc' = "ret"

\* The except clause of make_decision: it prints and falls off the end.
ReturnError ==
    /\ Return(error_result, "STOP_ERROR")
    /\ fault' = "holder_count"

\* Lines 301-305: the snapshot fetch; an empty snapshot returns True.  The
\* clock is read once an iteration, in check_time_limit: the seconds that
\* the awaited calls between two reads take pass here.
FetchSnapshotOf(responses) ==
    /\ apc = "call"
    /\ \E response \in responses, d \in Delays :
         LET holders == get_top_holders(response)
         IN  /\ elapsed' = Advance(elapsed, d)
             /\ gates' = NoGates
             /\ fault' = IF response.kind = "raise" THEN "snapshot" ELSE "none"
             /\ IF no_top_holders(holders)
                THEN Return(empty_snapshot_result, "NO_DATA")
                ELSE /\ top_holders' = holders
                     /\ apc' = "display"
                     /\ UNCHANGED <<proceed, verdict>>
    /\ calls' = Min(calls + 1, max_iterations + 1)
    /\ queries' = 0
    /\ UNCHANGED i

FetchSnapshot == FetchSnapshotOf(LoopResponses)

\* Line 306: display_top_holders asks for the holder count and prints.
DisplayTopHoldersOf(counts) ==
    /\ apc = "display"
    /\ \E count \in counts :
         IF count.kind = "raise"
         THEN ReturnError
         ELSE /\ apc' = "gates"
              /\ UNCHANGED <<top_holders, proceed, verdict, fault>>
    /\ queries' = queries + 1
    /\ UNCHANGED <<i, gates, elapsed, calls>>

DisplayTopHolders == DisplayTopHoldersOf(LoopHolderCounts)

\* Lines 307-310: the time check reads the clock, then the holder count is
\* fetched, then the two gates over the snapshot.
EvaluateGatesOf(counts) ==
    /\ apc = "gates"
    /\ \E currentThreshold \in counts :
         LET time_met == check_time_limit(elapsed, timeLimit)
         IN  /\ UNCHANGED elapsed
             /\ IF currentThreshold.kind = "raise"
                THEN /\ ReturnError
                     /\ gates' = [gates EXCEPT !.time_met = time_met]
                ELSE /\ gates' =
                          [gates EXCEPT
                             !.time_met = time_met,
                             !.holder_count_met =
                                 check_holder_count(currentThreshold.count,
                                                    holder_threshold),
                             !.dev_wallet_sold =
                                 check_dev_wallet_sold(dev_threshold, top_holders),
                             !.lp_liquidity_met =
                                 check_lp_liquidity(lp_threshold_lower,
                                                    lp_threshold_upper, top_holders),
                             !.exhausted = bonding_curve_exhausted(top_holders),
                             !.stage = "primary"]
                     /\ apc' = "decide"
                     /\ UNCHANGED <<top_holders, proceed, verdict, fault>>
    /\ queries' = queries + 1
    /\ UNCHANGED <<i, calls>>

EvaluateGates == EvaluateGatesOf(LoopHolderCounts)

\* Lines 312-336 once the special holder count is known.
decide_timeout_first(g) ==
    IF g.holder_count_met /\ g.dev_wallet_sold /\ g.lp_liquidity_met /\ g.time_met
    THEN "STOP_TRADE_CLEARED"
    ELSE IF g.special_holder_met /\ g.special_lp_met /\ g.time_met
            /\ ~g.dev_wallet_sold
    THEN "STOP_SPECIAL_CLEARED"
    ELSE IF ~g.time_met THEN "STOP_TIMEOUT"
    ELSE IF g.exhausted THEN "STOP_EXHAUSTED"
    ELSE "CONTINUE"

decide_special_without_time(g) ==
    IF g.holder_count_met /\ g.dev_wallet_sold /\ g.lp_liquidity_met /\ g.time_met
    THEN "STOP_TRADE_CLEARED"
    ELSE IF g.special_holder_met /\ g.special_lp_met /\ ~g.dev_wallet_sold
    THEN "STOP_SPECIAL_CLEARED"
    ELSE IF g.exhausted THEN "STOP_EXHAUSTED"
    ELSE IF ~g.time_met THEN "STOP_TIMEOUT"
    ELSE "CONTINUE"

decide(g) ==
    IF g.holder_count_met /\ g.dev_wallet_sold /\ g.lp_liquidity_met /\ g.time_met
    THEN "STOP_TRADE_CLEARED"
    ELSE IF g.special_holder_met /\ g.special_lp_met /\ g.time_met
            /\ ~g.dev_wallet_sold
    THEN "STOP_SPECIAL_CLEARED"
    ELSE IF g.exhausted THEN "STOP_EXHAUSTED"
    ELSE IF ~g.time_met THEN "STOP_TIMEOUT"
    ELSE "CONTINUE"

returned_proceed_on_cleared(which) ==
    IF which \in {"CONTINUE", "STOP_TRADE_CLEARED"} THEN "True" ELSE "False"
returned(which) == IF which = "CONTINUE" THEN "True" ELSE "False"

\* Lines 312-336: the primary rule; else the special rule, which fetches the
\* holder count again; else the forced exits.
DecideOf(counts) ==
    /\ apc = "decide"
    /\ IF gates.holder_count_met /\ gates.dev_wallet_sold
          /\ gates.lp_liquidity_met /\ gates.time_met
       THEN /\ Return(returned(decide(gates)), decide(gates))
            /\ UNCHANGED <<gates, elapsed, fault, queries>>
       ELSE \E currentThreshold \in counts :
              LET g == [gates EXCEPT
                          !.special_holder_met =
                              check_holder_count(currentThreshold.count,
                                                 special_holder_threshold),
                          !.special_lp_met =
                              check_lp_liquidity(special_lp_lower,
                                                 special_lp_upper, top_holders),
                          !.stage = "all"]
              IN  /\ UNCHANGED elapsed
                  /\ queries' = queries + 1
                  /\ IF currentThreshold.kind = "raise"
                     THEN /\ ReturnError
                          /\ UNCHANGED gates
                     ELSE /\ gates' = g
                          /\ Return(returned(decide(g)), decide(g))
                          /\ UNCHANGED fault
    /\ UNCHANGED <<i, calls>>

Decide == DecideOf(LoopHolderCounts)

----------------------------------------------------------------------------
(* analyser: the evaluation loop of one token *)

\* Lines 154-161: the client and the analyzer are built, the start time read.
AnalyserStart ==
    /\ apc = "new"
    /\ apc' = "call"
    /\ i' = 0
    /\ elapsed' = 0
    /\ UNCHANGED <<top_holders, gates, proceed, verdict, calls, fault, queries>>

\* Lines 155-157 raise (an event without its creator or curve address), or
\* line 163 does before make_decision is called (a mint that is no public
\* key, which the first round of the loop finds): the except clause of
\* analyser ends the task.
AnalyserSetupError ==
    /\ \/ apc = "new"
       \/ apc = "call" /\ calls = 0
    /\ apc' = "done"
    /\ verdict' = "SETUP_ERROR"
    /\ UNCHANGED <<i, elapsed, top_holders, gates, proceed, calls, fault, queries>>

\* Line 167: not proceed, which is true of False and of None.
should_break_on_false_only(value) == value = "False"
should_break(value) == value # "True"

\* Lines 167-168: if not proceed: break
LoopBreak ==
    /\ apc = "ret"
    /\ should_break(proceed)
    /\ apc' = "done"
    /\ UNCHANGED <<i, elapsed, top_holders, gates, proceed, verdict, calls, fault,
                   queries>>

\* Line 169, then the next round of the for loop, if there is one.
LoopSleep_while_true ==
    /\ apc = "ret"
    /\ ~should_break(proceed)
    /\ elapsed' = Advance(elapsed, sleep_seconds)
    /\ apc' = "call"
    /\ UNCHANGED <<i, top_holders, gates, proceed, verdict, calls, fault, queries>>

LoopSleep ==
    /\ apc = "ret"
    /\ ~should_break(proceed)
    /\ elapsed' = Advance(elapsed, sleep_seconds)
    /\ IF i + 1 < max_iterations
       THEN /\ i' = i + 1
            /\ apc' = "call"
       ELSE /\ apc' = "done"
            /\ UNCHANGED i
    /\ UNCHANGED <<top_holders, gates, proceed, verdict, calls, fault, queries>>

----------------------------------------------------------------------------
(* The evaluation loop over the providers of the end-to-end scenario: ten  *)
(* largest accounts, the creator at 5% in the first three snapshots and    *)
(* gone from them afterwards, the liquidity account at 75%, forty holders  *)

ScenarioOtherAmounts == {Pct(1), Pct(2)}
ScenarioOtherInfos == {Resolved("w1"), AccountInfo("ok", SPL_TOKEN_PROGRAM_ID, 0, "w1")}

ScenarioAccounts(creator_in, a, info) ==
    <<[amount |-> Pct(75), info |-> Resolved(bonding_curve)]>>
    \o (IF creator_in
        THEN <<[amount |-> Pct(5), info |-> Resolved(dev_wallet)]>>
        ELSE <<>>)
    \o [k \in 1..(IF creator_in THEN 7 ELSE 8) |->
           [amount |-> a, info |-> Resolved("w1")]]
    \o <<[amount |-> a, info |-> info]>>

\* What the largest-accounts query answers in round k of the for loop.
ScenarioResponses(k) ==
    {Response("ok", ScenarioAccounts(k < 3, a, info)) :
        a \in ScenarioOtherAmounts, info \in ScenarioOtherInfos}

ScenarioFeeds == {<<OwnersPage(1, 40)>>, <<OwnersPage(1, 25), OwnersPage(16, 40)>>}
ScenarioHolderCounts == {get_holder_count(pages) : pages \in ScenarioFeeds}

ScenarioFetch == FetchSnapshotOf(ScenarioResponses(i))
ScenarioDisplay == DisplayTopHoldersOf(ScenarioHolderCounts)
ScenarioGates == EvaluateGatesOf(ScenarioHolderCounts)
ScenarioDecide == DecideOf(ScenarioHolderCounts)

----------------------------------------------------------------------------

InitLoop ==
    /\ apc = "new"
    /\ i = 0
    /\ elapsed = 0
    /\ top_holders = <<>>
    /\ gates = NoGates
    /\ proceed = "unset"
    /\ verdict = "EVALUATING"
    /\ calls = 0
    /\ fault = "none"
    /\ queries = 0

\* The loop while another part of the program is looked at.
IdleLoop == InitLoop

----------------------------------------------------------------------------
(* get_holder_count, one page request after the other *)

TokenAccounts ==
    {[owner |-> 1, account |-> 11], [owner |-> 1, account |-> 12],
     [owner |-> 2, account |-> 21]}
OkPages ==
    {[kind |-> "ok", token_accounts |-> a] : a \in SeqsUpTo(TokenAccounts, MaxPageLen)}
PageFeeds == SeqsUpTo(OkPages \cup {NoResultPage, RaisePage}, MaxPages)

Unset == [kind |-> "unset", count |-> 0]

InitPages ==
    /\ ppc = "request"
    /\ feed \in PageFeeds
    /\ page = 1
    /\ all_owners = {}
    /\ result = Unset
    /\ requested = <<>>

IdlePages ==
    /\ ppc = "idle"
    /\ feed = <<>>
    /\ page = 1
    /\ all_owners = {}
    /\ result = Unset
    /\ requested = <<>>

\* Line 62 without its first test: data['result'] of an answer that has no
\* 'result' raises KeyError.
RequestPage_without_result_test ==
    /\ ppc = "request"
    /\ requested' = Append(requested, page)
    /\ LET data == PageOf(feed, page)
       IN  IF data.kind \in {"raise", "noresult"}
           THEN /\ ppc' = "done"
                /\ result' = [kind |-> "raise", count |-> 0]
                /\ UNCHANGED <<page, all_owners>>
           ELSE IF PageEnds(data)
           THEN /\ ppc' = "done"
                /\ result' = [kind |-> "ok", count |-> Cardinality(all_owners)]
                /\ UNCHANGED <<page, all_owners>>
           ELSE /\ all_owners' = all_owners \cup PageOwners(data)
                /\ page' = page + 1
                /\ UNCHANGED <<ppc, result>>
    /\ UNCHANGED feed

\* Lines 46-77: one round of the while loop: the request, then the break or
\* the owners of the page and the next page number.  requests.post or
\* response.json() raising leaves the function through no handler.
RequestPage ==
    /\ ppc = "request"
    /\ requested' = Append(requested, page)
    /\ LET data == PageOf(feed, page)
       IN  IF data.kind = "raise"
           THEN /\ ppc' = "done"
                /\ result' = [kind |-> "raise", count |-> 0]
                /\ UNCHANGED <<page, all_owners>>
           ELSE IF PageEnds(data)
           THEN /\ ppc' = "done"
                /\ result' = [kind |-> "ok", count |-> Cardinality(all_owners)]
                /\ UNCHANGED <<page, all_owners>>
           ELSE /\ all_owners' = all_owners \cup PageOwners(data)
                /\ page' = page + 1
                /\ UNCHANGED <<ppc, result>>
    /\ UNCHANGED feed

----------------------------------------------------------------------------
(* The gate functions applied to a snapshot *)

GateInfos == {Resolved(w) : w \in Wallets}
                 \cup {AccountInfo("ok", SPL_TOKEN_PROGRAM_ID, 0, "w1")}
GateAmounts ==
    {Pct(1) - 1, Pct(1), Pct(7), Pct(57), Pct(60), Pct(60) + 1, Pct(70),
     Pct(80), Pct(80) + 1, Pct(99) - 1, Pct(99)}
GateAccounts == [amount : GateAmounts, info : GateInfos]
GateSnapshots ==
    {get_top_holders(Response("ok", a)) :
        a \in LargestAccounts(GateAccounts, MaxAccounts)}
DevThresholds == {0, 1, 2, 7, 57, 60}

InitGates ==
    /\ gpc = "apply"
    /\ g_holders \in GateSnapshots
    /\ g_threshold = 0
    /\ g_upper = 0
    /\ g_result = FALSE

IdleGates ==
    /\ gpc = "idle"
    /\ g_holders = <<>>
    /\ g_threshold = 0
    /\ g_upper = 0
    /\ g_result = FALSE

\* check_dev_wallet_sold(mint, threshold, top_holders)
ApplyDevWalletSold ==
    /\ gpc = "apply"
    /\ \E threshold \in DevThresholds :
         /\ g_threshold' = threshold
         /\ g_result' = check_dev_wallet_sold(threshold, g_holders)
    /\ gpc' = "dev_wallet_sold"
    /\ UNCHANGED <<g_holders, g_upper>>

\* The ranges check_lp_liquidity is called with: its defaults, and the
\* range of analyser and of the special rule.
LpRanges == {<<7, 57>>, <<70, 80>>, <<lp_threshold_lower, lp_threshold_upper>>}

\* check_lp_liquidity(mint, thresholdLower, thresholdUpper, top_holders)
ApplyLpLiquidity ==
    /\ gpc = "apply"
    /\ \E range \in LpRanges :
         /\ g_threshold' = range[1]
         /\ g_upper' = range[2]
         /\ g_result' = check_lp_liquidity(range[1], range[2], g_holders)
    /\ gpc' = "lp_liquidity"
    /\ UNCHANGED g_holders

----------------------------------------------------------------------------
(* get_top_holders applied to an answer of the largest-accounts query *)

TopInfos ==
    {Resolved(dev_wallet), Resolved(bonding_curve), Resolved("w1"),
     AccountInfo("raise", SPL_TOKEN_PROGRAM_ID, 165, "w1"),
     AccountInfo("none", SPL_TOKEN_PROGRAM_ID, 165, "w1"),
     AccountInfo("ok", "System", 165, "w1"),
     AccountInfo("ok", SPL_TOKEN_PROGRAM_ID, min_account_data_len - 1, "w1")}
TopAmounts == {Pct(2), Pct(1)}
TopAccounts == [amount : TopAmounts, info : TopInfos]
TopResponses ==
    {Response("raise", <<>>), Response("none", <<>>)}
    \cup {Response("ok", a) : a \in LargestAccounts(TopAccounts, MaxRanked)}

InitTop ==
    /\ hpc = "call"
    /\ largest \in TopResponses
    /\ ranked = <<>>

IdleTop ==
    /\ hpc = "idle"
    /\ largest = Response("none", <<>>)
    /\ ranked = <<>>

\* get_top_holders(mint, top_n=20)
ApplyGetTopHolders ==
    /\ hpc = "call"
    /\ ranked' = get_top_holders(largest)
    /\ hpc' = "done"
    /\ UNCHANGED largest

----------------------------------------------------------------------------
(* main and monitorTokenCreation: the orchestrator and its tasks *)

Events == 1..MaxEvents
InitialLive == {0} \cup ((max_tasks - 1 - Headroom)..(max_tasks - 1))

\* asyncio.all_tasks(): the unfinished tasks of the event loop: the task of
\* main, the analyser tasks, the get_owner_wallet tasks asyncio.gather has
\* wrapped, and those of the websocket connection.
all_tasks_loops_only == live
all_tasks == 1 + live + resolving + ws_tasks

\* Line 145: if len(tasks) < 200
admits_always(n) == TRUE
admits(n) == n < max_tasks

\* Lines 178-182: main catches what monitorTokenCreation raises, and calls it
\* again.
main_without_handler == "stopped"
main_on_error == "connect"

InitOrch ==
    /\ mpc = "connect"
    /\ next_event = 1
    /\ outcome = [e \in Events |-> "none"]
    /\ live \in InitialLive
    /\ resolving = 0
    /\ ws_tasks = 0
    /\ exits = 0
    /\ loop_errors = 0
    /\ orch_errors = 0
    /\ after_error = FALSE
    /\ raised = FALSE

IdleOrch ==
    /\ mpc = "idle"
    /\ next_event = 1
    /\ outcome = <<>>
    /\ live = 0
    /\ resolving = 0
    /\ ws_tasks = 0
    /\ exits = 0
    /\ loop_errors = 0
    /\ orch_errors = 0
    /\ after_error = FALSE
    /\ raised = FALSE

\* Line 134: the connection is open.  The while loop comes back to this line
\* when the with block has been left, the closed connection's tasks done.
Connect ==
    /\ mpc = "connect"
    /\ ws_tasks = 0
    /\ mpc' = "listen"
    /\ ws_tasks' \in 0..MaxLibraryTasks
    /\ UNCHANGED <<next_event, outcome, live, resolving, exits, loop_errors,
                   orch_errors, after_error, raised>>

\* Line 134 raises: the exception leaves monitorTokenCreation for main.
ConnectError ==
    /\ mpc = "connect"
    /\ ws_tasks = 0
    /\ orch_errors < MaxOrchErrors
    /\ mpc' = main_on_error
    /\ orch_errors' = orch_errors + 1
    /\ UNCHANGED <<next_event, outcome, live, resolving, ws_tasks, exits,
                   loop_errors, after_error, raised>>

\* The mint of an event: a public key; a text with a "/" in it, under which
\* no file of trades/ can be opened; or not there.
MintKinds == {"key", "path", "missing"}

\* Line 136 raises (the connection closed, a message that does not parse):
\* the exit of the with block (line 134) awaits the close of the connection
\* before the exception goes on to main, and the other tasks run meanwhile.
ListenRaise ==
    /\ mpc = "listen"
    /\ ~raised
    /\ orch_errors < MaxOrchErrors
    /\ raised' = TRUE
    /\ UNCHANGED <<mpc, next_event, outcome, live, resolving, ws_tasks, exits,
                   loop_errors, orch_errors, after_error>>

\* Lines 181-182: main catches what line 136 or line 147 raised, the
\* connection closed and its tasks done; when the connection has no task
\* and its close does not suspend, the raise of line 136 and the catch are
\* one step.
ListenError ==
    /\ mpc = "listen"
    /\ ws_tasks = 0
    /\ orch_errors < MaxOrchErrors
    /\ mpc' = main_on_error
    /\ orch_errors' = orch_errors + 1
    /\ raised' = FALSE
    /\ UNCHANGED <<next_event, outcome, live, resolving, ws_tasks, exits,
                   loop_errors, after_error>>

\* Lines 136-150: an event arrives; the tasks are counted; at the ceiling the
\* event is skipped; below it line 147 reads the mint of the event, which
\* raises when the event has none, and line 148 creates the analyser task.
\* Main then awaits the close of the connection in the exit of the with
\* block, a task of the connection perhaps not yet done; what line 147
\* raised is caught by main after the close, or in this step when the
\* connection has no task and its close does not suspend.  No await stands
\* between the count and create_task, and nothing is written under trades/.
Admit ==
    /\ mpc = "listen"
    /\ ~raised
    /\ next_event <= MaxEvents
    /\ \E kind \in MintKinds :
         IF ~admits(all_tasks)
         THEN /\ outcome' = [outcome EXCEPT ![next_event] = "dropped"]
              /\ mpc' = "connect"
              /\ UNCHANGED <<live, orch_errors, raised>>
         ELSE IF kind = "missing"
         THEN /\ orch_errors < MaxOrchErrors
              /\ UNCHANGED <<live, outcome>>
              /\ \/ /\ raised' = TRUE
                    /\ UNCHANGED <<mpc, orch_errors>>
                 \/ /\ ws_tasks = 0
                    /\ mpc' = main_on_error
                    /\ orch_errors' = orch_errors + 1
                    /\ UNCHANGED raised
         ELSE /\ live' = live + 1
              /\ outcome' = [outcome EXCEPT ![next_event] = "spawned"]
              /\ mpc' = "connect"
              /\ UNCHANGED <<orch_errors, raised>>
    /\ next_event' = next_event + 1
    /\ after_error' = (after_error \/ loop_errors + orch_errors > 0)
    /\ UNCHANGED <<resolving, ws_tasks, exits, loop_errors>>
    /\ UNCHANGED <<files, trade_log>>

\* A task of the connection ends, in a step of its own: while main awaits
\* the close of the connection in the exit of the with block (line 134), or
\* while it still listens (line 136), the connection having dropped.
ConnectionTaskDone ==
    /\ mpc \in {"connect", "listen"}
    /\ ws_tasks > 0
    /\ ws_tasks' = ws_tasks - 1
    /\ UNCHANGED <<mpc, next_event, outcome, live, resolving, exits,
                   loop_errors, orch_errors, after_error, raised>>

\* analytics.py lines 181-187 in some live loop: gather wraps one
\* get_owner_wallet coroutine per account in a task.
StartGather ==
    /\ mpc \in {"connect", "listen"}
    /\ \E n \in 1..top_n :
         /\ resolving + n <= MaxResolving
         /\ resolving + n <= top_n * live
         /\ resolving' = resolving + n
    /\ UNCHANGED <<mpc, next_event, outcome, live, ws_tasks, exits, loop_errors,
                   orch_errors, after_error, raised>>

\* One get_owner_wallet task is done: it returned the owner, or None after
\* the exception it caught.
OwnerResolved ==
    /\ mpc \in {"connect", "listen"}
    /\ resolving > 0
    /\ resolving' = resolving - 1
    /\ UNCHANGED <<mpc, next_event, outcome, live, ws_tasks, exits, loop_errors,
                   orch_errors, after_error, raised>>

\* An analyser task that awaits no gather returns: its loop broke or ran out.
LoopExit ==
    /\ mpc \in {"connect", "listen"}
    /\ live > 0
    /\ resolving <= top_n * (live - 1)
    /\ exits < MaxExits
    /\ live' = live - 1
    /\ exits' = exits + 1
    /\ UNCHANGED <<mpc, next_event, outcome, resolving, ws_tasks, loop_errors,
                   orch_errors, after_error, raised>>

\* An analyser task ends in its except clause (trade.py lines 173-174).
LoopError ==
    /\ mpc \in {"connect", "listen"}
    /\ live > 0
    /\ resolving <= top_n * (live - 1)
    /\ exits < MaxExits
    /\ live' = live - 1
    /\ exits' = exits + 1
    /\ loop_errors' = loop_errors + 1
    /\ UNCHANGED <<mpc, next_event, outcome, resolving, ws_tasks, orch_errors,
                   after_error, raised>>

----------------------------------------------------------------------------
(* Several analyser tasks on the one event loop, step by step between the  *)
(* awaits of analyser and make_decision                                    *)

Loops == {"a", "b"}

InitTasks ==
    /\ t_pc = [l \in Loops |-> "absent"]
    /\ t_i = [l \in Loops |-> 0]
    /\ t_proceed = [l \in Loops |-> "unset"]
    /\ t_started = [l \in Loops |-> 0]
    /\ t_finished = [l \in Loops |-> 0]

IdleTasks ==
    /\ t_pc = <<>>
    /\ t_i = <<>>
    /\ t_proceed = <<>>
    /\ t_started = <<>>
    /\ t_finished = <<>>

\* trade.py line 148: the orchestrator creates the task and does not wait.
TaskSpawn(l) ==
    /\ t_pc[l] = "absent"
    /\ t_pc' = [t_pc EXCEPT ![l] = "new"]
    /\ UNCHANGED <<t_i, t_proceed, t_started, t_finished>>

\* trade.py lines 154-161: the task runs up to its for loop.
TaskStart(l) ==
    /\ t_pc[l] = "new"
    /\ t_pc' = [t_pc EXCEPT ![l] = "call"]
    /\ t_i' = [t_i EXCEPT ![l] = 0]
    /\ UNCHANGED <<t_proceed, t_started, t_finished>>

\* trade.py lines 155-157 raise (an event without its creator or curve
\* address), or line 163 does before make_decision is called (a mint that is
\* no public key, which the first round of the loop finds): the except
\* clause of analyser, lines 173-174, ends the task.
TaskSetupError(l) ==
    /\ \/ t_pc[l] = "new"
       \/ t_pc[l] = "call" /\ t_started[l] = 0
    /\ t_pc' = [t_pc EXCEPT ![l] = "done"]
    /\ UNCHANGED <<t_i, t_proceed, t_started, t_finished>>

\* trade.py line 163, analytics.py lines 301-302: make_decision is called and
\* suspends in the snapshot fetch.
TaskCall(l) ==
    /\ t_pc[l] = "call"
    /\ t_pc' = [t_pc EXCEPT ![l] = "fetching"]
    /\ t_started' = [t_started EXCEPT ![l] = @ + 1]
    /\ UNCHANGED <<t_i, t_proceed, t_finished>>

\* analytics.py lines 302-306: the snapshot is there; an empty one returns
\* True, another one goes on to the awaits of the gate evaluation.
TaskFetched(l) ==
    /\ t_pc[l] = "fetching"
    /\ \/ /\ t_pc' = [t_pc EXCEPT ![l] = "ret"]
          /\ t_proceed' = [t_proceed EXCEPT ![l] = empty_snapshot_result]
          /\ t_finished' = [t_finished EXCEPT ![l] = @ + 1]
       \/ /\ t_pc' = [t_pc EXCEPT ![l] = "evaluating"]
          /\ UNCHANGED <<t_proceed, t_finished>>
    /\ UNCHANGED <<t_i, t_started>>

\* analytics.py lines 306-338: the gates are evaluated and make_decision
\* returns True or False, or None from its except clause.
TaskEvaluated(l) ==
    /\ t_pc[l] = "evaluating"
    /\ \E value \in {"True", "False", error_result} :
         t_proceed' = [t_proceed EXCEPT ![l] = value]
    /\ t_pc' = [t_pc EXCEPT ![l] = "ret"]
    /\ t_finished' = [t_finished EXCEPT ![l] = @ + 1]
    /\ UNCHANGED <<t_i, t_started>>

\* trade.py line 163: proceed = await make_decision(...): the lines after it
\* run once the call has returned.
decision_not_awaited(pc) == pc \in {"fetching", "evaluating", "ret"}
decision_awaited(pc) == pc = "ret"

\* trade.py lines 167-168
TaskBreak(l) ==
    /\ decision_awaited(t_pc[l])
    /\ should_break(t_proceed[l])
    /\ t_pc' = [t_pc EXCEPT ![l] = "done"]
    /\ UNCHANGED <<t_i, t_proceed, t_started, t_finished>>

\* trade.py line 169, then the next round of the for loop, if there is one.
TaskSleep(l) ==
    /\ decision_awaited(t_pc[l])
    /\ ~should_break(t_proceed[l])
    /\ IF t_i[l] + 1 < max_iterations
       THEN /\ t_i' = [t_i EXCEPT ![l] = @ + 1]
            /\ t_pc' = [t_pc EXCEPT ![l] = "call"]
       ELSE /\ t_pc' = [t_pc EXCEPT ![l] = "done"]
            /\ UNCHANGED t_i
    /\ UNCHANGED <<t_proceed, t_started, t_finished>>

----------------------------------------------------------------------------
(* The trade path: main past its monitor branch, trade and _trade *)

\* Texts, as the sequences of their characters.
Uppers == <<"A", "B", "C", "D", "E", "F", "G", "H", "I", "J", "K", "L", "M",
            "N", "O", "P", "Q", "R", "S", "T", "U", "V", "W", "X", "Y", "Z">>
Lowers == <<"a", "b", "c", "d", "e", "f", "g", "h", "i", "j", "k", "l", "m",
            "n", "o", "p", "q", "r", "s", "t", "u", "v", "w", "x", "y", "z">>

\* str.lower(), of the texts whose letters are those of Uppers and Lowers
lower_char(c) ==
    IF \E k \in DOMAIN Uppers : Uppers[k] = c
    THEN Lowers[CHOOSE k \in DOMAIN Uppers : Uppers[k] = c]
    ELSE c
lower(text) == [k \in 1..Len(text) |-> lower_char(text[k])]

\* sub in text
contains(sub, text) ==
    \E k \in 0..(Len(text) - Len(sub)) : SubSeq(text, k + 1, k + Len(sub)) = sub

\* None where a text can stand, and the key of an event that is not there.
NoText == <<None>>
MissingText == <<"missing">>
Missing == "missing"

\* if match_string, if bro_address: neither None nor the empty text
truthy_text(text) == text # NoText /\ text # <<>>
truthy(address) == address # None /\ address # ""

pepe == <<"p", "e", "p", "e">>
Names == {<<"P", "e", "p", "e", " ", "C", "o", "i", "n">>,
          <<"d", "o", "g", "e">>, MissingText}
Symbols == {<<"P", "E", "P", "E">>, <<"x">>, MissingText}
Users == {dev_wallet, "bro", Missing}
Prices == {3, 4}
MatchStrings == {NoText, <<>>, pepe}
Flags ==
    [yolo_mode : BOOLEAN, match_string : MatchStrings,
     bro_address : {None, "bro"}, marry_mode : BOOLEAN]
NoToken == [mint |-> 0, mint_kind |-> "missing", name |-> MissingText,
            symbol |-> MissingText, user |-> Missing]

\* Line 74: the name or the symbol contains the match string, whatever the
\* case of the letters.
name_matches(match_string, token) ==
    \/ contains(lower(match_string), lower(token.name))
    \/ contains(lower(match_string), lower(token.symbol))

\* Lines 74-90, what becomes of the event received: "raise" when a key that
\* is read is not there or the file cannot be opened, "skip" when a filter
\* rejects the event, "save" when its file is written.  The symbol is read
\* only when the name does not contain the match string.
on_event(f, token) ==
    IF truthy_text(f.match_string) /\ token.name = MissingText THEN "raise"
    ELSE IF /\ truthy_text(f.match_string)
            /\ ~contains(lower(f.match_string), lower(token.name))
            /\ token.symbol = MissingText
    THEN "raise"
    ELSE IF truthy_text(f.match_string) /\ ~name_matches(f.match_string, token)
    THEN "skip"
    ELSE IF truthy(f.bro_address) /\ token.user = Missing THEN "raise"
    ELSE IF truthy(f.bro_address) /\ token.user # f.bro_address THEN "skip"
    ELSE IF token.mint_kind # "key" THEN "raise"
    ELSE "save"

\* Lines 47-58: the entry log_trade appends, as one line.
log_entry(action, token, price, tx_hash) ==
    [action |-> action, token_address |-> token.mint, price |-> price,
     tx_hash |-> tx_hash]
log_trade(action, token, price, tx_hash) ==
    Append(trade_log, log_entry(action, token, price, tx_hash))

\* Lines 110 and 121: if buy_tx_hash, if sell_tx_hash
tx_logged_always(tx_hash) == TRUE
tx_logged(tx_hash) == tx_hash # None

InitTrade ==
    /\ tpc = "listen"
    /\ flags \in Flags
    /\ token_data = NoToken
    /\ token_price_sol = 0
    /\ trade_log = <<>>
    /\ files = <<>>
    /\ seen = <<>>
    /\ executed = <<>>

IdleTrade ==
    /\ tpc = "idle"
    /\ flags = <<>>
    /\ token_data = NoToken
    /\ token_price_sol = 0
    /\ trade_log = <<>>
    /\ files = <<>>
    /\ seen = <<>>
    /\ executed = <<>>

\* Lines 128-129 and 76-78, 82-84: without yolo mode _trade breaks, and main
\* is over; with it the while loop listens again.
after_token == IF flags.yolo_mode THEN "listen" ELSE "returned"

\* An exception leaves _trade: in yolo mode main catches it and calls trade
\* again (lines 185-201); otherwise it leaves main (lines 204-205).
after_exception == IF flags.yolo_mode THEN "listen" ELSE "raised"

\* Lines 70-95: an event arrives; one that fails a filter is skipped; of the
\* others the payload is written to trades/<mint>.txt, then _trade waits 15
\* seconds.  An exception of lines 74-90 leaves _trade with the event
\* received and no file written.
TradeListen ==
    /\ tpc = "listen"
    /\ Len(seen) < MaxTrades
    /\ \E name \in Names, symbol \in Symbols, user \in Users, kind \in MintKinds :
         LET token == [mint |-> Len(seen) + 1, mint_kind |-> kind,
                       name |-> name, symbol |-> symbol, user |-> user]
             what == on_event(flags, token)
         IN  /\ token_data' = token
             /\ seen' = Append(seen, token.mint)
             /\ IF what = "raise"
                THEN /\ tpc' = after_exception
                     /\ UNCHANGED files
                ELSE IF what = "skip"
                THEN /\ tpc' = after_token
                     /\ UNCHANGED files
                ELSE /\ files' = Append(files, token.mint)
                     /\ tpc' = "price"
    /\ UNCHANGED <<flags, token_price_sol, trade_log, executed>>

\* Line 70 raises (the connection closed).
TradeListenError ==
    /\ tpc = "listen"
    /\ tpc' = after_exception
    /\ UNCHANGED <<flags, token_data, token_price_sol, trade_log, files, seen,
                   executed>>

\* Lines 97-104 raise: the curve state cannot be read.
TradePriceError ==
    /\ tpc = "price"
    /\ tpc' = after_exception
    /\ UNCHANGED <<flags, token_data, token_price_sol, trade_log, files, seen,
                   executed>>

\* Lines 97-109: the price is read and assigned, and _trade waits for
\* buy_token.
TradePrice ==
    /\ tpc = "price"
    /\ \E price \in Prices : token_price_sol' = price
    /\ tpc' = "buy"
    /\ UNCHANGED <<flags, token_data, trade_log, files, seen, executed>>

\* Lines 109-115: the buy has been made and, if it returned a transaction
\* id, is logged with the price read before it.
TradeBuy ==
    /\ tpc = "buy"
    /\ \E buy_tx_hash \in {None, "sigB"} :
         /\ executed' = Append(executed, [action |-> "buy",
                                          mint |-> token_data.mint,
                                          tx_hash |-> buy_tx_hash])
         /\ IF tx_logged(buy_tx_hash)
            THEN trade_log' = log_trade("buy", token_data, token_price_sol,
                                        buy_tx_hash)
            ELSE UNCHANGED trade_log
    /\ tpc' = IF flags.marry_mode THEN after_token ELSE "sell"
    /\ UNCHANGED <<flags, token_data, token_price_sol, files, seen>>

\* Line 109 raises.
TradeBuyError ==
    /\ tpc = "buy"
    /\ tpc' = after_exception
    /\ UNCHANGED <<flags, token_data, token_price_sol, trade_log, files, seen,
                   executed>>

\* Lines 116-129: 20 seconds pass, the sell is made and, if it returned a
\* transaction id, logged with the price read before the buy.
TradeSell ==
    /\ tpc = "sell"
    /\ \E sell_tx_hash \in {None, "sigS"} :
         /\ executed' = Append(executed, [action |-> "sell",
                                          mint |-> token_data.mint,
                                          tx_hash |-> sell_tx_hash])
         /\ IF tx_logged(sell_tx_hash)
            THEN trade_log' = log_trade("sell", token_data, token_price_sol,
                                        sell_tx_hash)
            ELSE UNCHANGED trade_log
    /\ tpc' = after_token
    /\ UNCHANGED <<flags, token_data, token_price_sol, files, seen>>

\* Line 120 raises.
TradeSellError ==
    /\ tpc = "sell"
    /\ tpc' = after_exception
    /\ UNCHANGED <<flags, token_data, token_price_sol, trade_log, files, seen,
                   executed>>

----------------------------------------------------------------------------
(* main, called from the command line or by a caller of its own *)

Args ==
    [yolo : BOOLEAN, match : MatchStrings, bro : {None, "bro"},
     marry : BOOLEAN, monitor : BOOLEAN]

InitMain ==
    /\ main_pc = "start"
    /\ entry \in {"cli", "call"}
    /\ args \in Args
    /\ monitor_mode = TRUE

IdleMain ==
    /\ main_pc = "idle"
    /\ entry = "none"
    /\ args = <<>>
    /\ monitor_mode = TRUE

\* trade.py line 223 passes yolo_mode, match_string, bro_address and
\* marry_mode, and not monitor_mode, which keeps the default of line 176; a
\* caller of its own passes what it likes.
monitor_mode_from_flag(how, a) == a.monitor
passed_monitor_mode(how, a) == IF how = "cli" THEN TRUE ELSE a.monitor

\* trade.py lines 176-205: main enters the monitoring loop, or else the
\* trade path with the four other arguments.
MainStart ==
    /\ main_pc = "start"
    /\ main_pc' = "running"
    /\ monitor_mode' = passed_monitor_mode(entry, args)
    /\ IF monitor_mode'
       THEN /\ mpc' = "connect"
            /\ outcome' = [e \in Events |-> "none"]
            /\ UNCHANGED <<tpc, flags>>
       ELSE /\ tpc' = "listen"
            /\ flags' = [yolo_mode |-> args.yolo, match_string |-> args.match,
                         bro_address |-> args.bro, marry_mode |-> args.marry]
            /\ UNCHANGED <<mpc, outcome>>
    /\ UNCHANGED <<entry, args>>
    /\ UNCHANGED <<next_event, live, resolving, ws_tasks, exits, loop_errors,
                   orch_errors, after_error, raised>>
    /\ UNCHANGED <<token_data, token_price_sol, trade_log, files, seen, executed>>
    /\ UNCHANGED <<loopvars, pagevars, gatevars, taskvars, topvars>>

----------------------------------------------------------------------------
(* The specifications *)

\* One evaluation loop.
Init == InitLoop /\ IdlePages /\ IdleGates /\ IdleOrch /\ IdleTasks /\ IdleTrade
    /\ IdleTop /\ IdleMain
LoopOnly ==
    UNCHANGED <<pagevars, gatevars, orchvars, taskvars, tradevars, topvars,
              mainvars>>
Next ==
    \/ AnalyserStart /\ LoopOnly
    \/ AnalyserSetupError /\ LoopOnly
    \/ FetchSnapshot /\ LoopOnly
    \/ DisplayTopHolders /\ LoopOnly
    \/ EvaluateGates /\ LoopOnly
    \/ Decide /\ LoopOnly
    \/ LoopBreak /\ LoopOnly
    \/ LoopSleep /\ LoopOnly
Spec == Init /\ [][Next]_vars

\* The same loop when every awaited call returns and the event loop runs the
\* task again: a step that can be taken is taken.
SpecLive == Spec /\ WF_vars(Next)

\* One evaluation loop over the providers of the end-to-end scenario.
ScenarioNext ==
    \/ AnalyserStart /\ LoopOnly
    \/ ScenarioFetch /\ LoopOnly
    \/ ScenarioDisplay /\ LoopOnly
    \/ ScenarioGates /\ LoopOnly
    \/ ScenarioDecide /\ LoopOnly
    \/ LoopBreak /\ LoopOnly
    \/ LoopSleep /\ LoopOnly
SpecScenario == Init /\ [][ScenarioNext]_vars

\* One call of get_holder_count.
PagesInit == IdleLoop /\ InitPages /\ IdleGates /\ IdleOrch /\ IdleTasks /\ IdleTrade
    /\ IdleTop /\ IdleMain
PagesNext ==
    RequestPage
    /\ UNCHANGED <<loopvars, gatevars, orchvars, taskvars, tradevars, topvars,
                 mainvars>>
SpecPages == PagesInit /\ [][PagesNext]_vars

\* One call of a gate function.
GatesInit == IdleLoop /\ IdlePages /\ InitGates /\ IdleOrch /\ IdleTasks /\ IdleTrade
    /\ IdleTop /\ IdleMain
GatesOnly ==
    UNCHANGED <<loopvars, pagevars, orchvars, taskvars, tradevars, topvars,
              mainvars>>
GatesNext ==
    \/ ApplyDevWalletSold /\ GatesOnly
    \/ ApplyLpLiquidity /\ GatesOnly
SpecGates == GatesInit /\ [][GatesNext]_vars

\* The orchestrator and the tasks of the event loop.
OrchInit ==
    IdleLoop /\ IdlePages /\ IdleGates /\ InitOrch /\ IdleTasks /\ IdleTrade
    /\ IdleTop /\ IdleMain
OrchOnly ==
    UNCHANGED <<loopvars, pagevars, gatevars, taskvars, tradevars, topvars,
              mainvars>>
OrchNext ==
    \/ Connect /\ OrchOnly
    \/ ConnectError /\ OrchOnly
    \/ ListenRaise /\ OrchOnly
    \/ ListenError /\ OrchOnly
    \/ Admit /\ OrchOnly
    \/ ConnectionTaskDone /\ OrchOnly
    \/ StartGather /\ OrchOnly
    \/ OwnerResolved /\ OrchOnly
    \/ LoopExit /\ OrchOnly
    \/ LoopError /\ OrchOnly
SpecOrch == OrchInit /\ [][OrchNext]_vars


\* The analyser tasks the orchestrator has spawned, interleaved.
TasksInit ==
    IdleLoop /\ IdlePages /\ IdleGates /\ IdleOrch /\ InitTasks /\ IdleTrade
    /\ IdleTop /\ IdleMain
TasksOnly ==
    UNCHANGED <<loopvars, pagevars, gatevars, orchvars, tradevars, topvars,
              mainvars>>
TasksNext ==
    \E l \in Loops :
        \/ TaskSpawn(l) /\ TasksOnly
        \/ TaskStart(l) /\ TasksOnly
        \/ TaskSetupError(l) /\ TasksOnly
        \/ TaskCall(l) /\ TasksOnly
        \/ TaskFetched(l) /\ TasksOnly
        \/ TaskEvaluated(l) /\ TasksOnly
        \/ TaskBreak(l) /\ TasksOnly
        \/ TaskSleep(l) /\ TasksOnly
SpecTasks == TasksInit /\ [][TasksNext]_vars


\* The trade path.
TradeInit ==
    IdleLoop /\ IdlePages /\ IdleGates /\ IdleOrch /\ IdleTasks /\ InitTrade
    /\ IdleTop /\ IdleMain
TradeOnly ==
    UNCHANGED <<loopvars, pagevars, gatevars, orchvars, taskvars, topvars,
              mainvars>>
TradeNext ==
    \/ TradeListen /\ TradeOnly
    \/ TradeListenError /\ TradeOnly
    \/ TradePriceError /\ TradeOnly
    \/ TradePrice /\ TradeOnly
    \/ TradeBuy /\ TradeOnly
    \/ TradeBuyError /\ TradeOnly
    \/ TradeSell /\ TradeOnly
    \/ TradeSellError /\ TradeOnly
SpecTrade == TradeInit /\ [][TradeNext]_vars


\* One call of get_top_holders.
TopInit ==
    IdleLoop /\ IdlePages /\ IdleGates /\ IdleOrch /\ IdleTasks /\ IdleTrade
    /\ InitTop /\ IdleMain
TopNext ==
    ApplyGetTopHolders
    /\ UNCHANGED <<loopvars, pagevars, gatevars, orchvars, taskvars, tradevars,
                 mainvars>>
SpecTop == TopInit /\ [][TopNext]_vars


\* The program from main on: the monitoring orchestrator with its tasks, or
\* the trade path.
MainInit ==
    IdleLoop /\ IdlePages /\ IdleGates /\ IdleOrch /\ IdleTasks /\ IdleTrade
    /\ IdleTop /\ InitMain
MainNext ==
    \/ MainStart
    \/ Connect /\ OrchOnly
    \/ ConnectError /\ OrchOnly
    \/ ListenRaise /\ OrchOnly
    \/ ListenError /\ OrchOnly
    \/ Admit /\ OrchOnly
    \/ ConnectionTaskDone /\ OrchOnly
    \/ StartGather /\ OrchOnly
    \/ OwnerResolved /\ OrchOnly
    \/ LoopExit /\ OrchOnly
    \/ LoopError /\ OrchOnly
    \/ TradeListen /\ TradeOnly
    \/ TradeListenError /\ TradeOnly
    \/ TradePriceError /\ TradeOnly
    \/ TradePrice /\ TradeOnly
    \/ TradeBuy /\ TradeOnly
    \/ TradeBuyError /\ TradeOnly
    \/ TradeSell /\ TradeOnly
    \/ TradeSellError /\ TradeOnly
SpecMain == MainInit /\ [][MainNext]_vars

----------------------------------------------------------------------------
(* The evaluation loop: claims C1, C2, C5, C6 *)

C1_Primary(g) ==
    g.holder_count_met /\ g.dev_wallet_sold /\ g.lp_liquidity_met /\ g.time_met
C1_Special(g) ==
    g.special_holder_met /\ g.special_lp_met /\ g.time_met /\ ~g.dev_wallet_sold

\* make_decision has returned from an iteration whose snapshot was not empty
\* and whose gates were all evaluated without an exception.
C1_Evaluated ==
    apc = "ret" /\ gates.stage # "unset" /\ verdict # "STOP_ERROR"

\* C1: in an iteration with a non-empty snapshot the verdict follows the
\* ordered rule over the gate values: STOP_TRADE_CLEARED if the primary rule
\* passes, else STOP_SPECIAL_CLEARED if the relaxed rule passes, else
\* STOP_EXHAUSTED if the liquidity is near exhausted, else STOP_TIMEOUT if the
\* time budget is spent, else CONTINUE; and only CONTINUE returns True.
C1_OrderedRule ==
    C1_Evaluated =>
        LET P == C1_Primary(gates)
            S == C1_Special(gates)
        IN  /\ (verdict = "STOP_TRADE_CLEARED") = P
            /\ (verdict = "STOP_SPECIAL_CLEARED") = (~P /\ S)
            /\ (verdict = "STOP_EXHAUSTED") = (~P /\ ~S /\ gates.exhausted)
            /\ (verdict = "STOP_TIMEOUT")
                   = (~P /\ ~S /\ ~gates.exhausted /\ ~gates.time_met)
            /\ (verdict = "CONTINUE")
                   = (~P /\ ~S /\ ~gates.exhausted /\ gates.time_met)
            /\ (proceed = "True") = (verdict = "CONTINUE")
            /\ proceed \in {"True", "False"}
            /\ ~P => gates.stage = "all"

\* The forced exits in their order: the liquidity is exhausted and the time
\* budget is spent, and the verdict is STOP_EXHAUSTED.
C1_Witness ==
    /\ C1_Evaluated
    /\ verdict = "STOP_EXHAUSTED"
    /\ ~gates.time_met
    /\ gates.exhausted

\* C2: an empty snapshot is terminal: the iteration that got it returns a
\* value the loop breaks on, and no further iteration is ever about to start
\* with the empty snapshot as the last verdict.  The code returns True
\* (analytics.py:303-305) and the loop goes on.
C2_EmptySnapshotTerminal ==
    verdict = "NO_DATA" => (apc \in {"ret", "done"} /\ proceed # "True")

Terminal == apc = "ret" /\ proceed # "True"

\* C5: the loop calls make_decision at most 60 times, and once an iteration
\* has returned a terminal verdict (False, or None after an error) the loop
\* breaks: no further call, no further fetch, and the ended loop takes no step.
C5_BoundedAndTerminal ==
    /\ [](calls <= max_iterations /\ i < max_iterations)
    /\ [][Terminal => (apc' = "done" /\ calls' = calls /\ i' = i)]_vars
    /\ [][apc = "done" => UNCHANGED loopvars]_vars

\* The loop ended by running out of iterations, having made all sixty calls.
C5_Witness ==
    apc = "done" /\ calls = max_iterations /\ proceed = "True"

\* C6: whichever fetch of the iteration raised, the iteration ends in
\* STOP_ERROR and the loop goes no further.  An exception of the snapshot
\* fetch is caught inside get_top_holders, the snapshot is empty, and the
\* loop goes on as it does on any empty snapshot (C2).
C6_AnyErrorTerminal ==
    (apc = "ret" /\ fault # "none")
        => (verdict = "STOP_ERROR" /\ proceed # "True")

----------------------------------------------------------------------------
(* The exhaustion rule of make_decision: claim C12 *)

\* Some record of the snapshot in hand is the liquidity account's, at 99% of
\* the supply or more.
C12_LiquidityAtOrAbove99 ==
    \E k \in DOMAIN top_holders :
        /\ top_holders[k].address = bonding_curve
        /\ top_holders[k].amount * 100 >= 99 * total_supply

\* The step in which make_decision returns from an iteration whose gates
\* were all evaluated and in which neither clearance rule passed.
C12_ReturnsUncleared ==
    /\ apc = "decide"
    /\ apc' = "ret"
    /\ verdict' # "STOP_ERROR"
    /\ ~C1_Primary(gates')
    /\ ~C1_Special(gates')

\* C12: in an iteration where neither clearance rule passes the verdict is
\* STOP_EXHAUSTED iff the snapshot has a liquidity-account record at 99% or
\* more; below 99%, or with no such record, the exhaustion rule does not fire
\* and the verdict is STOP_TIMEOUT or CONTINUE.
C12_Exhausted ==
    [][C12_ReturnsUncleared =>
          /\ (verdict' = "STOP_EXHAUSTED") = C12_LiquidityAtOrAbove99
          /\ C12_LiquidityAtOrAbove99 => proceed' = "False"
          /\ ~C12_LiquidityAtOrAbove99
                => verdict' \in {"STOP_TIMEOUT", "CONTINUE"}]_vars

\* The liquidity account holds 99% within the time budget, no clearance rule
\* passed, and the loop has stopped on STOP_EXHAUSTED.
C12_Witness ==
    /\ apc = "done"
    /\ verdict = "STOP_EXHAUSTED"
    /\ gates.stage = "all"
    /\ gates.time_met
    /\ gates.exhausted
    /\ ~C1_Primary(gates)
    /\ ~C1_Special(gates)

----------------------------------------------------------------------------
(* The end-to-end scenario: claim C13 *)

\* C13: over the scenario's providers the first three calls of make_decision
\* return CONTINUE (the creator still holds 5%, and forty holders do not
\* reach the sixty of the special rule), the fourth returns
\* STOP_TRADE_CLEARED, the loop breaks on it, and there is no fifth call.
C13_Scenario ==
    /\ calls <= 4
    /\ (apc = "ret" /\ calls \in 1..3)
          => (verdict = "CONTINUE" /\ proceed = "True"
              /\ ~gates.dev_wallet_sold /\ gates.holder_count_met
              /\ gates.lp_liquidity_met /\ gates.time_met)
    /\ (apc = "ret" /\ calls = 4)
          => (verdict = "STOP_TRADE_CLEARED" /\ proceed = "False")
    /\ apc = "done"
          => (calls = 4 /\ i = 3 /\ verdict = "STOP_TRADE_CLEARED")

\* The loop has ended on the fourth iteration's STOP_TRADE_CLEARED.
C13_Witness ==
    /\ apc = "done"
    /\ calls = 4
    /\ verdict = "STOP_TRADE_CLEARED"
    /\ gates.dev_wallet_sold
    /\ elapsed >= 3 * sleep_seconds

----------------------------------------------------------------------------
(* Iterations of one loop among other loops: claim C14 *)

\* What a task owns: its position, its loop index, its proceed, its calls.
C14_StateOf(l) == <<t_pc[l], t_i[l], t_proceed[l], t_started[l], t_finished[l]>>

\* C14: a task has at most one make_decision call in flight, and exactly
\* while it stands in the snapshot fetch or in the gate evaluation; a call
\* starts only when every earlier call of the task has returned, and it is
\* the call of the round the for loop is in; and a step of one task, or of
\* the orchestrator spawning one, leaves every other task as it was.
C14_Sequential ==
    /\ [](\A l \in Loops :
            /\ t_started[l] - t_finished[l] \in {0, 1}
            /\ (t_started[l] - t_finished[l] = 1)
                  = (t_pc[l] \in {"fetching", "evaluating"}))
    /\ [][\A l \in Loops :
            t_started'[l] # t_started[l]
               => /\ t_finished[l] = t_started[l]
                  /\ t_started'[l] = t_started[l] + 1
                  /\ t_started'[l] = t_i[l] + 1]_vars
    /\ [][\A l, m \in Loops :
            (l # m /\ C14_StateOf(l)' # C14_StateOf(l))
               => C14_StateOf(m)' = C14_StateOf(m)]_vars

\* Two loops in the middle of different iterations at once: one in the
\* snapshot fetch of its third, the other in the gate evaluation of its first.
C14_Witness ==
    /\ t_pc["a"] = "fetching"
    /\ t_started["a"] = 3
    /\ t_finished["a"] = 2
    /\ t_pc["b"] = "evaluating"
    /\ t_started["b"] = 1

----------------------------------------------------------------------------
(* The trade log: claim C15 *)

C15_Returned(e) == e.tx_hash # None
C15_Line(e) == [action |-> e.action, token_address |-> e.mint, tx_hash |-> e.tx_hash]
C15_LinesOf(ex) ==
    LET returned_ones == SelectSeq(ex, C15_Returned)
    IN  [k \in DOMAIN returned_ones |-> C15_Line(returned_ones[k])]
C15_LogLines ==
    [k \in DOMAIN trade_log |->
        [action |-> trade_log[k].action,
         token_address |-> trade_log[k].token_address,
         tx_hash |-> trade_log[k].tx_hash]]

\* C15: the trade log holds, in order, one line for each buy or sell that
\* returned a transaction id and none for one that returned none; a step
\* appends at most one line and leaves the lines there are as they are; a
\* token has at most one buy line and one sell line, the buy line first.
C15_TradeLog ==
    /\ [](C15_LogLines = C15_LinesOf(executed))
    /\ [][/\ Len(trade_log') \in {Len(trade_log), Len(trade_log) + 1}
          /\ SubSeq(trade_log', 1, Len(trade_log)) = trade_log]_vars
    /\ [][executed' # executed
            => /\ Len(executed') = Len(executed) + 1
               /\ Len(trade_log') - Len(trade_log)
                     = IF C15_Returned(executed'[Len(executed')]) THEN 1 ELSE 0]_vars
    /\ [](\A j, k \in DOMAIN trade_log :
            trade_log[j].token_address = trade_log[k].token_address
               => /\ trade_log[j].action = trade_log[k].action => j = k
                  /\ (trade_log[j].action = "buy" /\ trade_log[k].action = "sell")
                        => j < k)

\* A buy line and a sell line of the first token, then a second token whose
\* buy returned nothing and whose sell is logged alone.
C15_Witness ==
    /\ Len(executed) = 4
    /\ Len(trade_log) = 3
    /\ trade_log[1].action = "buy" /\ trade_log[1].token_address = 1
    /\ trade_log[2].action = "sell" /\ trade_log[2].token_address = 1
    /\ trade_log[3].action = "sell" /\ trade_log[3].token_address = 2
    /\ executed[3].tx_hash = None

----------------------------------------------------------------------------
(* The per-launch snapshot file: claim C16 *)

\* How many times the file of a mint has been written.
C16_Writes(mint) == Cardinality({k \in DOMAIN files : files[k] = mint})

\* C16 as claimed, of the monitoring orchestrator: every launch event it has
\* consumed, whether it spawned a loop for it or dropped it, has its snapshot
\* file, written once.  (The events of the orchestrator are numbered as
\* their mints are.)
C16_SnapshotPerEvent ==
    \A e \in DOMAIN outcome : outcome[e] # "none" => C16_Writes(e) = 1

----------------------------------------------------------------------------
(* The time budget: claim C18 *)

\* C18: an iteration that has a non-empty snapshot once more than 100
\* seconds have passed since the loop started does not return True: its
\* verdict is STOP_EXHAUSTED or STOP_TIMEOUT (or it ended in the except
\* clause, on a holder-count query that raised), and the loop breaks on it;
\* the time gate is true exactly up to and including 100 seconds.
C18_TimeBudget ==
    /\ [](apc = "ret" /\ verdict # "NO_DATA" /\ elapsed > timeLimit
            => /\ proceed # "True"
               /\ verdict # "CONTINUE"
               /\ verdict # "STOP_ERROR"
                     => verdict \in {"STOP_EXHAUSTED", "STOP_TIMEOUT"})
    /\ [](apc \in {"decide", "ret"} /\ gates.stage # "unset"
            => gates.time_met = (elapsed <= timeLimit))
    /\ [][apc = "ret" /\ verdict # "NO_DATA" /\ elapsed > timeLimit
            => apc' = "done"]_vars

\* The loop has ended on STOP_TIMEOUT past the budget.
C18_Witness ==
    /\ apc = "done"
    /\ elapsed > timeLimit
    /\ verdict = "STOP_TIMEOUT"
    /\ ~gates.time_met

\* At exactly 100 seconds the time gate is true and the loop goes on.
C18_WitnessAtBudget ==
    /\ apc = "ret"
    /\ elapsed = timeLimit
    /\ gates.time_met
    /\ verdict = "CONTINUE"

----------------------------------------------------------------------------
(* The empty snapshot: claim C17 *)

\* The step in which make_decision is called and gets an empty snapshot.
C17_FetchesEmpty ==
    apc = "call" /\ apc' \notin {"call", "done"} /\ top_holders' = <<>>

\* C17: the iteration whose snapshot is empty returns at once: no
\* get_holder_count call is made in it and no gate is evaluated (not the
\* time check, not the creator gate, not the liquidity gate); the queries
\* and the gates only ever see a snapshot that is not empty.
C17_NoGateOnEmpty ==
    /\ [][C17_FetchesEmpty
            => /\ apc' = "ret"
               /\ verdict' = "NO_DATA"
               /\ queries' = 0
               /\ gates' = NoGates]_vars
    /\ [](apc = "ret" /\ verdict = "NO_DATA" => queries = 0 /\ gates = NoGates)
    /\ [](queries > 0 \/ gates.stage # "unset" => verdict # "NO_DATA" \/ apc # "ret")
    /\ [](apc \in {"display", "gates", "decide"} => top_holders # <<>>)

\* The second iteration of a loop has returned on an empty snapshot that no
\* exception stands behind.
C17_Witness ==
    /\ apc = "ret"
    /\ verdict = "NO_DATA"
    /\ calls = 2
    /\ queries = 0
    /\ gates = NoGates
    /\ fault = "none"

----------------------------------------------------------------------------
(* Termination of the evaluation loop: claim C19 *)

\* C19: when every awaited call returns, a spawned evaluation loop ends, and
\* stays ended: on a False or a None of make_decision, on an exception in
\* analyser, or after the last of its sixty rounds.
C19_Terminates == <>[](apc = "done")

\* The loop was kept going by empty snapshots for all its sixty rounds, and
\* has ended.
C19_Witness ==
    /\ apc = "done"
    /\ calls = max_iterations
    /\ verdict = "NO_DATA"
    /\ i = max_iterations - 1

----------------------------------------------------------------------------
(* The ranks of get_top_holders: claim C20 *)

\* The owner of the account can be resolved: the fetch answers, with an
\* account of the token program whose data has the 64 bytes.
C20_Resolves(info) ==
    /\ info.rpc = "ok"
    /\ info.program = SPL_TOKEN_PROGRAM_ID
    /\ info.len >= 64

\* C20: of an answered largest-accounts list, the output has one record for
\* each account whose owner resolves and none for the others; a record's
\* rank is the 1-based position of its account in the upstream list, with
\* that account's amount and owner; and the records stand in upstream order.
C20_RanksKept ==
    (hpc = "done" /\ largest.kind = "ok") =>
        LET upstream == largest.value
        IN  /\ {ranked[k].rank : k \in DOMAIN ranked}
                  = {j \in DOMAIN upstream : C20_Resolves(upstream[j].info)}
            /\ \A k \in DOMAIN ranked :
                  /\ ranked[k].rank \in DOMAIN upstream
                  /\ ranked[k].amount = upstream[ranked[k].rank].amount
                  /\ ranked[k].address = upstream[ranked[k].rank].info.owner
            /\ \A j, k \in DOMAIN ranked :
                  j < k => ranked[j].rank < ranked[k].rank

\* The second of three accounts does not resolve: the output has ranks 1
\* and 3.
C20_Witness ==
    /\ hpc = "done"
    /\ largest.kind = "ok"
    /\ Len(largest.value) = 3
    /\ ~C20_Resolves(largest.value[2].info)
    /\ Len(ranked) = 2
    /\ ranked[1].rank = 1
    /\ ranked[2].rank = 3

----------------------------------------------------------------------------
(* Clearance and the time gate: claim C21 *)

\* C21: make_decision returns STOP_TRADE_CLEARED or STOP_SPECIAL_CLEARED only
\* from an iteration whose time gate was true, that is, whose time check
\* read no more than 100 seconds since the loop started.
C21_ClearedWithinBudget ==
    (apc \in {"ret", "done"}
       /\ verdict \in {"STOP_TRADE_CLEARED", "STOP_SPECIAL_CLEARED"})
        => /\ gates.time_met
           /\ elapsed <= timeLimit
           /\ proceed = "False"

\* The special rule has cleared a token at exactly 100 seconds.
C21_Witness ==
    /\ apc = "done"
    /\ verdict = "STOP_SPECIAL_CLEARED"
    /\ elapsed = timeLimit
    /\ gates.time_met
    /\ ~gates.dev_wallet_sold

----------------------------------------------------------------------------
(* get_holder_count: claims C8, C9 *)

IsEmptyPage(data) == data.kind = "ok" /\ data.token_accounts = <<>>
IsOwnersPage(data) == data.kind = "ok" /\ data.token_accounts # <<>>

\* The pages the provider was asked for, in the order of the requests.
Answered == [k \in 1..Len(requested) |-> PageOf(feed, requested[k])]

\* The provider's pages are non-empty up to a first empty page.
C8_NonEmptyThenEmpty ==
    /\ Len(requested) >= 1
    /\ IsEmptyPage(Answered[Len(requested)])
    /\ \A k \in 1..(Len(requested) - 1) : IsOwnersPage(Answered[k])

C8_UnionOfOwners ==
    UNION {{Answered[k].token_accounts[j].owner :
                j \in DOMAIN Answered[k].token_accounts} :
           k \in 1..Len(requested)}

\* C8: the pages are requested as 1, 2, ... in order; no page is requested
\* after the first empty one; and over non-empty pages followed by an empty
\* one the count returned is the number of distinct owners on those pages.
\* The function the evaluation loop uses returns the same, page for page.
C8_Pagination ==
    /\ \A k \in 1..Len(requested) : requested[k] = k
    /\ \A k \in 1..(Len(requested) - 1) : ~IsEmptyPage(Answered[k])
    /\ (ppc = "done" /\ C8_NonEmptyThenEmpty)
           => /\ result.kind = "ok"
              /\ result.count = Cardinality(C8_UnionOfOwners)
    /\ ppc = "done"
           => /\ get_holder_count(feed).kind = result.kind
              /\ get_holder_count(feed).count = result.count
              /\ get_holder_count(feed).requests = Len(requested)

\* Two non-empty pages and the empty third: three accounts of two owners.
C8_Witness ==
    /\ ppc = "done"
    /\ C8_NonEmptyThenEmpty
    /\ Len(requested) = 3
    /\ result.count = 2
    /\ Len(feed[1].token_accounts) + Len(feed[2].token_accounts) >= 3

\* C9 as claimed: if the holder-accounts call raises on some page, the caller
\* of get_holder_count receives 0 and no exception.
C9_FailsSoft ==
    (ppc = "done" /\ \E k \in 1..Len(requested) : Answered[k].kind = "raise")
        => (result.kind = "ok" /\ result.count = 0)

----------------------------------------------------------------------------
(* An answer without 'result': claim C22 *)

\* The owners on the pages answered before the last request.
C22_EarlierOwners ==
    UNION {{Answered[k].token_accounts[j].owner :
                j \in DOMAIN Answered[k].token_accounts} :
           k \in 1..(Len(requested) - 1)}

\* C22: an answer without 'result' is the last page requested; when it
\* comes, get_holder_count returns the number of distinct owners of the
\* pages before it (0 when it is page 1) and raises nothing.
C22_NoResultEndsPagination ==
    /\ \A k \in 1..(Len(requested) - 1) : Answered[k].kind # "noresult"
    /\ (Len(requested) >= 1 /\ Answered[Len(requested)].kind = "noresult")
          => /\ ppc = "done"
             /\ result.kind = "ok"
             /\ result.count = Cardinality(C22_EarlierOwners)
             /\ Len(requested) = 1 => result.count = 0
    /\ ppc = "done" => Len(requested) = page

\* A page of two owners, then an answer without 'result': 2 is returned.
C22_Witness ==
    /\ ppc = "done"
    /\ Len(requested) = 2
    /\ Answered[2].kind = "noresult"
    /\ result.kind = "ok"
    /\ result.count = 2

----------------------------------------------------------------------------
(* The command-line entry point: claim C23 *)

\* C23: started from the command line, whatever the flags, main has
\* monitor_mode true and stays in the monitoring loop, before a connect or a
\* listen; the trade path is never entered: no event reaches _trade, no buy
\* or sell is made, no line is written to the trade log.
C23_CliMonitorsOnly ==
    entry = "cli" =>
        /\ monitor_mode
        /\ main_pc = "running" => mpc \in {"connect", "listen"}
        /\ tpc = "idle"
        /\ seen = <<>>
        /\ executed = <<>>
        /\ trade_log = <<>>

\* Started with --yolo and --match and without --monitor, main has caught an
\* exception of the monitoring loop and consumed every event of the stream.
C23_Witness ==
    /\ entry = "cli"
    /\ main_pc = "running"
    /\ args.yolo
    /\ args.match = pepe
    /\ ~args.monitor
    /\ orch_errors >= 1
    /\ next_event > MaxEvents
    /\ mpc = "listen"

----------------------------------------------------------------------------
(* check_dev_wallet_sold: claim C10 *)

\* The percentage of a record, a float, is at or above the whole number t:
\* its fraction is above t, or is t and the float is not rounded below it.
C10_AtOrAbove(p, t) ==
    \/ p.num > t * p.den
    \/ p.num = t * p.den /\ p.err # -1

\* No record owned by the creator wallet has a percentage >= the threshold.
C10_NoCreatorRecordAtOrAbove ==
    \A k \in DOMAIN g_holders :
        g_holders[k].address = dev_wallet
            => ~ C10_AtOrAbove(g_holders[k].percentage, g_threshold)

\* C10 as claimed: for every snapshot, the empty one included, the gate is
\* true iff no record of the creator is at or above the threshold.
C10_CreatorExitedAll ==
    gpc = "dev_wallet_sold" => (g_result = C10_NoCreatorRecordAtOrAbove)

\* C10 as the code has it: that holds of every non-empty snapshot (so the gate
\* is true when no record is the creator's); of the empty snapshot the gate
\* is false.
C10_CreatorExited ==
    gpc = "dev_wallet_sold" =>
        /\ g_holders # <<>> => (g_result = C10_NoCreatorRecordAtOrAbove)
        /\ (g_holders # <<>>
              /\ \A k \in DOMAIN g_holders : g_holders[k].address # dev_wallet)
             => g_result = TRUE
        /\ g_holders = <<>> => g_result = FALSE

\* The creator holds exactly the threshold and has not exited.
C10_Witness ==
    /\ gpc = "dev_wallet_sold"
    /\ g_threshold = 1
    /\ g_result = FALSE
    /\ \E k \in DOMAIN g_holders :
         /\ g_holders[k].address = dev_wallet
         /\ g_holders[k].percentage = [num |-> total_supply, den |-> total_supply,
                                       err |-> 0]

----------------------------------------------------------------------------
(* check_lp_liquidity: claim C11 *)

\* The records of the liquidity account in the snapshot handed to the gate.
C11_CurveRecords ==
    {k \in DOMAIN g_holders : g_holders[k].address = bonding_curve}

\* The percentage of a record, a float, is above the whole number t: its
\* fraction is above t, or is t and the float is rounded above it.
C11_Above(p, t) ==
    \/ p.num > t * p.den
    \/ p.num = t * p.den /\ p.err = 1
\* The percentage of a record is the whole number t itself.
C11_Exactly(p, t) == p.num = t * p.den /\ p.err = 0

\* C11: the liquidity gate is true iff some record of the liquidity account
\* has lower < percentage <= upper; a record at exactly the upper bound makes
\* it true, a snapshot whose liquidity records all stand at exactly the lower
\* bound makes it false, and so does one with no liquidity record.
C11_LiquidityInRange ==
    gpc = "lp_liquidity" =>
        /\ g_result =
              (\E k \in C11_CurveRecords :
                  /\ C11_Above(g_holders[k].percentage, g_threshold)
                  /\ ~ C11_Above(g_holders[k].percentage, g_upper))
        /\ (\E k \in C11_CurveRecords :
                C11_Exactly(g_holders[k].percentage, g_upper))
             => g_result = TRUE
        /\ (\A k \in C11_CurveRecords :
                C11_Exactly(g_holders[k].percentage, g_threshold))
             => g_result = FALSE
        /\ C11_CurveRecords = {} => g_result = FALSE

\* The liquidity account holds exactly 80% and the gate of 70 to 80 is true.
C11_Witness ==
    /\ gpc = "lp_liquidity"
    /\ g_threshold = 70
    /\ g_upper = 80
    /\ g_result = TRUE
    /\ \E k \in C11_CurveRecords :
         C11_Exactly(g_holders[k].percentage, 80)

\* The liquidity account holds exactly the lower bound and the gate is false.
C11_WitnessLower ==
    /\ gpc = "lp_liquidity"
    /\ g_result = FALSE
    /\ C11_CurveRecords # {}
    /\ \A k \in C11_CurveRecords :
         C11_Exactly(g_holders[k].percentage, g_threshold)

----------------------------------------------------------------------------
(* The orchestrator: claims C3, C4, C7 *)

\* The step in which the orchestrator consumes a launch event.
Consumes == next_event' = next_event + 1

\* C3: never more than 200 evaluation loops are live; the event consumed
\* with the task count at the ceiling starts no loop and is recorded as
\* dropped; a dropped event stays dropped (nothing keeps it for later); and a
\* loop is only ever started by the event being consumed, one loop for it.
C3_Ceiling ==
    /\ [](live <= max_tasks)
    /\ [][(Consumes /\ all_tasks >= max_tasks)
             => (live' = live /\ outcome'[next_event] = "dropped")]_vars
    /\ [][\A e \in Events : outcome[e] = "dropped" => outcome'[e] = "dropped"]_vars
    /\ [][live' > live
             => (Consumes /\ live' = live + 1
                 /\ outcome[next_event] = "none"
                 /\ outcome'[next_event] = "spawned")]_vars

\* An event has been dropped with as many loops live as there can be, and
\* events have been consumed after it.
C3_Witness ==
    /\ live = max_tasks - 1
    /\ \E e \in Events : outcome[e] = "dropped" /\ e + 1 < next_event

\* C4 as claimed: the admission test counts evaluation loops, so an event
\* that arrives with fewer than 200 loops live gets its loop.
C4_CountsLoops ==
    [][(Consumes /\ live < max_tasks)
          => (live' = live + 1 /\ outcome'[next_event] = "spawned")]_vars

\* The step raises: an exception is in flight that was not, or main has
\* caught one more.
C4_Raises == (raised' /\ ~raised) \/ orch_errors' > orch_errors

\* C4 as the code has it: the test counts every unfinished task of the event
\* loop (the main task, the evaluation loops, the owner-resolution tasks in
\* flight and the connection's own): the event gets its loop iff that count
\* is below 200.  That is so of every event handled without an exception;
\* the only exception there is in the handling is that of a record without
\* a mint, which is no launch event: it is raised below the ceiling, before
\* the loop is created, and the record is neither dropped nor given a loop.
C4_CountsTasks ==
    /\ [][(Consumes /\ ~C4_Raises)
             => IF 1 + live + resolving + ws_tasks < max_tasks
                THEN live' = live + 1 /\ outcome'[next_event] = "spawned"
                ELSE live' = live /\ outcome'[next_event] = "dropped"]_vars
    /\ [][(Consumes /\ C4_Raises)
             => /\ 1 + live + resolving + ws_tasks < max_tasks
                /\ live' = live
                /\ outcome' = outcome]_vars

\* An event found fewer than 200 loops live and was dropped all the same,
\* and another one got its loop.
C4_Witness ==
    /\ live < max_tasks
    /\ \E e \in Events : outcome[e] = "dropped"
    /\ \E e \in Events : outcome[e] = "spawned"

\* C7: the orchestrator never stops: whatever exception an evaluation loop
\* ends on and whatever connect or listen raise, it stands before a connect
\* or a listen that it can go on from (the connect once the connection it
\* leaves is closed, the handling of what listen raised once that connection
\* is closed); and the step in which a loop ends on an exception changes
\* nothing but that loop's being live.
C7_OrchestratorSurvives ==
    /\ [](mpc \in {"connect", "listen"})
    /\ [](mpc = "connect" /\ ws_tasks = 0 => ENABLED Connect)
    /\ [](mpc = "connect" /\ ws_tasks > 0 => ENABLED ConnectionTaskDone)
    /\ [](mpc = "listen" /\ ~raised /\ next_event <= MaxEvents => ENABLED Admit)
    /\ [](raised => ENABLED ConnectionTaskDone \/ ENABLED ListenError)
    /\ [][loop_errors' # loop_errors
             => (live' = live - 1
                 /\ UNCHANGED <<mpc, next_event, outcome, resolving, ws_tasks,
                                orch_errors>>)]_vars

\* An evaluation loop has ended on an exception, main has caught one, and
\* the orchestrator has consumed an event after that.
C7_Witness ==
    /\ loop_errors >= 1
    /\ orch_errors >= 1
    /\ after_error
    /\ mpc = "listen"

====
